---- MODULE Spec2Model ----
(***************************************************************************)
(* FloorModeAnime: the data pipeline (parser.js, validator.js), the        *)
(* playback controller (animation.js) and the loader that joins them       *)
(* (app.js).                                                               *)
(*                                                                         *)
(* Units.  Every finite JavaScript number is held as an integer:           *)
(*   lengths and amplitudes (x, y, z, uz)  in units of 1e-9 (so EPS = 1),  *)
(*   frequencies                           in Hz,                          *)
(*   scale and speed                       in tenths (1.0 is 10),          *)
(*   deltaTime                             in milliseconds,                *)
(*   time                                  in 1e-4 s (ms times tenths).    *)
(* A number that may be NaN or infinite (a frequency, an amplitude) is a   *)
(* record [k, v]: k is "fin", "nan" or "inf", v the value or the sign.     *)
(* A JavaScript Map is the sequence of its <<key, value>> entries in       *)
(* insertion order, keys unique.  null is <<>> and a present value v is    *)
(* <<v>> wherever a field may be null (currentMode, an optional JSON key). *)
(***************************************************************************)
EXTENDS Integers, Sequences, FiniteSets, TLC

\* ------------------------------------------------------------------------
\* JavaScript numbers
\* ------------------------------------------------------------------------
Fin(n) == [k |-> "fin", v |-> n]
NaN == [k |-> "nan", v |-> 0]
Infinity(sign) == [k |-> "inf", v |-> sign]

isNaN(x) == x.k = "nan"
isFinite(x) == x.k = "fin"
Abs(n) == IF n < 0 THEN -n ELSE n

\* Number(v) of a JSON value: a number literal, a literal too large for a
\* double (1e999), a non-numeric string, or null.
Number(raw) ==
  CASE raw.t = "num" -> Fin(raw.v)
    [] raw.t = "big" -> Infinity(raw.v)
    [] raw.t = "str" -> NaN
    [] raw.t = "null" -> Fin(0)

\* v ?? d for an optional JSON member held as <<>> or <<v>>.
Nullish(opt, d) == IF opt = <<>> THEN d ELSE opt[1]

\* ------------------------------------------------------------------------
\* Map: entries in insertion order
\* ------------------------------------------------------------------------
MapIndex(m, key) == {i \in 1..Len(m) : m[i][1] = key}
MapHas(m, key) == MapIndex(m, key) # {}
MapGet(m, key) == m[CHOOSE i \in MapIndex(m, key) : TRUE][2]
MapSet(m, key, val) ==
  IF MapHas(m, key)
  THEN [i \in 1..Len(m) |-> IF m[i][1] = key THEN <<key, val>> ELSE m[i]]
  ELSE Append(m, <<key, val>>)
MapKeys(m) == [i \in 1..Len(m) |-> m[i][1]]
MapValues(m) == [i \in 1..Len(m) |-> m[i][2]]

\* Object.entries of a JSON object whose keys are canonical integers: the
\* entries come in ascending key order whatever the order of the text.
RECURSIVE EntriesOf(_, _)
EntriesOf(obj, keys) ==
  IF keys = {} THEN <<>>
  ELSE LET k == CHOOSE a \in keys : \A b \in keys : a <= b
       IN <<<<k, obj[k]>>>> \o EntriesOf(obj, keys \ {k})
ObjectEntries(obj) == EntriesOf(obj, DOMAIN obj)

\* ------------------------------------------------------------------------
\* parser.js
\* ------------------------------------------------------------------------
\* The node loop setting every count to 1.
RECURSIVE ParseNodesCountOnce(_, _, _, _)
ParseNodesCountOnce(items, i, nodes, counts) ==
  IF i > Len(items) THEN [nodes |-> nodes, nodeIdCounts |-> counts]
  ELSE LET n == items[i]
           id == n.id
           node == [id |-> id, x |-> Nullish(n.x, 0), y |-> Nullish(n.y, 0),
                    z |-> Nullish(n.z, 0)]
       IN ParseNodesCountOnce(items, i + 1, MapSet(nodes, id, node),
                              MapSet(counts, id, 1))
RECURSIVE ParseNodes(_, _, _, _)
ParseNodes(items, i, nodes, counts) ==
  IF i > Len(items) THEN [nodes |-> nodes, nodeIdCounts |-> counts]
  ELSE LET n == items[i]
           id == n.id
           node == [id |-> id, x |-> Nullish(n.x, 0), y |-> Nullish(n.y, 0),
                    z |-> Nullish(n.z, 0)]
           cnt == IF MapHas(counts, id) THEN MapGet(counts, id) ELSE 0
       IN ParseNodes(items, i + 1, MapSet(nodes, id, node),
                     MapSet(counts, id, cnt + 1))

ParseLines(items) ==
  [i \in 1..Len(items) |->
     [id |-> items[i].id, nodeI |-> items[i].nodeI, nodeJ |-> items[i].nodeJ]]

RECURSIVE ParseFreqHz(_, _, _)
ParseFreqHz(entries, i, freqHz) ==
  IF i > Len(entries) THEN freqHz
  ELSE ParseFreqHz(entries, i + 1,
                   MapSet(freqHz, entries[i][1], Number(entries[i][2])))

\* The amplitude Map without the zero fill.
InitUzNone(nodeKeys, i, uzMap) == uzMap
RECURSIVE InitUz(_, _, _)
InitUz(nodeKeys, i, uzMap) ==
  IF i > Len(nodeKeys) THEN uzMap
  ELSE InitUz(nodeKeys, i + 1, MapSet(uzMap, nodeKeys[i], Fin(0)))

RECURSIVE FillUz(_, _, _)
FillUz(entries, i, uzMap) ==
  IF i > Len(entries) THEN uzMap
  ELSE FillUz(entries, i + 1,
              MapSet(uzMap, entries[i][1], Number(entries[i][2])))

RECURSIVE ParseModes(_, _, _, _)
ParseModes(entries, i, nodes, modes) ==
  IF i > Len(entries) THEN modes
  ELSE LET zeroed == InitUz(MapKeys(nodes), 1, <<>>)
           uzMap == FillUz(ObjectEntries(entries[i][2]), 1, zeroed)
       IN ParseModes(entries, i + 1, nodes, MapSet(modes, entries[i][1], uzMap))

\* The dataset parseFloorData returns when it returns.  Every one of its
\* keys is set; "missing" names the keys that are undefined, for the
\* validator's required-key check.  A top-level value that is no object has
\* none of the four keys.
parseFloorData(doc) ==
  LET isObject == doc.top = "object"
      pn == IF isObject /\ doc.hasNodes
            THEN ParseNodes(doc.nodes, 1, <<>>, <<>>)
            ELSE [nodes |-> <<>>, nodeIdCounts |-> <<>>]
      lines == IF isObject /\ doc.hasLines THEN ParseLines(doc.lines) ELSE <<>>
      freqHz == IF isObject /\ doc.hasFreqHz
                THEN ParseFreqHz(ObjectEntries(doc.freqHz), 1, <<>>)
                ELSE <<>>
      modes == IF isObject /\ doc.hasModes
               THEN ParseModes(ObjectEntries(doc.modes), 1, pn.nodes, <<>>)
               ELSE <<>>
  IN [nodes |-> pn.nodes, nodeIdCounts |-> pn.nodeIdCounts, lines |-> lines,
      freqHz |-> freqHz, modes |-> modes, missing |-> {}]

\* JSON.parse throws exactly on text that is not well-formed JSON.
jsonParseThrows(doc) == ~doc.wellFormed
\* A property read on null throws a TypeError: data.meta when the top-level
\* value is null, n.id and l.id when an entry of nodes or lines is null.
IsNullEntry(entry) == "t" \in DOMAIN entry
HasNullEntry(items) == \E i \in 1..Len(items) : IsNullEntry(items[i])
readThrows(doc) ==
  \/ doc.top = "null"
  \/ /\ doc.top = "object"
     /\ \/ doc.hasNodes /\ HasNullEntry(doc.nodes)
        \/ doc.hasLines /\ HasNullEntry(doc.lines)
\* parseFloorData ends in an exception instead of a dataset.
parseThrows(doc) == jsonParseThrows(doc) \/ readThrows(doc)

\* ------------------------------------------------------------------------
\* validator.js
\* ------------------------------------------------------------------------
EPS == 1
MAX_ERRORS == 100
FREQ_HIGH_HZ == 30

\* errors and warnings are the two arrays; returned says that the function
\* has returned; log records every push on either array, in program order.
EmptyReport ==
  [errors |-> <<>>, warnings |-> <<>>, returned |-> FALSE, log |-> <<>>]

\* pushError without the cap.
pushErrorUncapped(rep, code, a, b) ==
  [rep EXCEPT !.errors = Append(@, [code |-> code, a |-> a, b |-> b]),
              !.log = Append(@, "error")]
\* pushError, followed by the caller's "if (limitReached) return".
pushError(rep, code, a, b) ==
  IF Len(rep.errors) >= MAX_ERRORS THEN [rep EXCEPT !.returned = TRUE]
  ELSE LET errs == Append(rep.errors, [code |-> code, a |-> a, b |-> b])
       IN [rep EXCEPT !.errors = errs, !.returned = Len(errs) >= MAX_ERRORS,
                      !.log = Append(@, "error")]

pushWarning(rep, code, a, b) ==
  [rep EXCEPT !.warnings = Append(@, [code |-> code, a |-> a, b |-> b]),
              !.log = Append(@, "warning")]

\* One guarded check of the function body: nothing runs after a return.
check(rep, cond, code, a, b) ==
  IF rep.returned \/ ~cond THEN rep ELSE pushError(rep, code, a, b)
warn(rep, cond, code, a, b) ==
  IF rep.returned \/ ~cond THEN rep ELSE pushWarning(rep, code, a, b)

RequiredKeys == <<"nodes", "lines", "freqHz", "modes">>

RECURSIVE CheckRequiredKeyLoop(_, _, _)
CheckRequiredKeyLoop(rep, data, i) ==
  IF i > Len(RequiredKeys) \/ rep.returned THEN rep
  ELSE CheckRequiredKeyLoop(
         check(rep, RequiredKeys[i] \in data.missing, "E_MISSING_KEY", i, 0),
         data, i + 1)

CheckRequiredKeys(rep, data) ==
  LET r == CheckRequiredKeyLoop(rep, data, 1)
  IN IF Len(r.errors) > 0 THEN [r EXCEPT !.returned = TRUE] ELSE r

\* The emptiness check of nodes ending the validation when it fires.
CheckNodesEmptyAndReturn(rep, data) ==
  [check(rep, Len(data.nodes) = 0, "E_NODES_EMPTY", 0, 0)
     EXCEPT !.returned = @ \/ Len(data.nodes) = 0]
CheckNodesEmpty(rep, data) ==
  check(rep, Len(data.nodes) = 0, "E_NODES_EMPTY", 0, 0)

\* The duplicate scan walks the keys of the nodes Map (nodeIdCounts is not
\* among the validator's parameters).
RECURSIVE CheckNodeDuplicateLoop(_, _, _, _)
CheckNodeDuplicateLoop(rep, keys, idx, seenNodeIds) ==
  IF idx > Len(keys) \/ rep.returned THEN rep
  ELSE CheckNodeDuplicateLoop(
         check(rep, keys[idx] \in seenNodeIds, "E_NODE_DUPLICATE",
               idx - 1, keys[idx]),
         keys, idx + 1, seenNodeIds \cup {keys[idx]})

CheckNodeDuplicates(rep, data) ==
  CheckNodeDuplicateLoop(rep, MapKeys(data.nodes), 1, {})

CheckLinesEmpty(rep, data) ==
  check(rep, Len(data.lines) = 0, "E_LINES_EMPTY", 0, 0)

\* The line check looking at nodeJ only when nodeI is defined.
CheckLineFirstEndpoint(rep, nodes, line, i, seenLineIds) ==
  LET r1 == check(rep, line.id \in seenLineIds, "E_LINE_DUPLICATE", i - 1, line.id)
      r2 == check(r1, ~MapHas(nodes, line.nodeI), "E_LINE_NODE_UNDEF", i - 1, line.nodeI)
      r3 == check(r2, MapHas(nodes, line.nodeI) /\ ~MapHas(nodes, line.nodeJ),
                  "E_LINE_NODE_UNDEF", i - 1, line.nodeJ)
  IN check(r3, line.nodeI = line.nodeJ, "E_LINE_SELF_LOOP", i - 1, line.id)
CheckLine(rep, nodes, line, i, seenLineIds) ==
  LET r1 == check(rep, line.id \in seenLineIds, "E_LINE_DUPLICATE", i - 1, line.id)
      r2 == check(r1, ~MapHas(nodes, line.nodeI), "E_LINE_NODE_UNDEF", i - 1, line.nodeI)
      r3 == check(r2, ~MapHas(nodes, line.nodeJ), "E_LINE_NODE_UNDEF", i - 1, line.nodeJ)
  IN check(r3, line.nodeI = line.nodeJ, "E_LINE_SELF_LOOP", i - 1, line.id)

RECURSIVE CheckLineLoop(_, _, _, _, _)
CheckLineLoop(rep, nodes, lines, i, seenLineIds) ==
  IF i > Len(lines) \/ rep.returned THEN rep
  ELSE CheckLineLoop(CheckLine(rep, nodes, lines[i], i, seenLineIds),
                     nodes, lines, i + 1, seenLineIds \cup {lines[i].id})

CheckLines(rep, data) == CheckLineLoop(rep, data.nodes, data.lines, 1, {})

\* The frequency check with "freq > 30" alone guarding the warning.
CheckFreqWarnUnguarded(rep, modeNum, freq) ==
  LET r1 == CASE isNaN(freq) -> check(rep, TRUE, "E_FREQ_NAN", modeNum, 0)
              [] ~isNaN(freq) /\ ~isFinite(freq) ->
                   check(rep, TRUE, "E_FREQ_INFINITY", modeNum, 0)
              [] isFinite(freq) /\ freq.v <= 0 ->
                   check(rep, TRUE, "E_FREQ_NON_POSITIVE", modeNum, freq.v)
              [] OTHER -> rep
      above == (isFinite(freq) /\ freq.v > FREQ_HIGH_HZ)
               \/ (~isNaN(freq) /\ ~isFinite(freq) /\ freq.v > 0)
  IN warn(r1, above, "W_FREQ_HIGH", modeNum, freq.v)
CheckFreq(rep, modeNum, freq) ==
  LET r1 == CASE isNaN(freq) -> check(rep, TRUE, "E_FREQ_NAN", modeNum, 0)
              [] ~isNaN(freq) /\ ~isFinite(freq) ->
                   check(rep, TRUE, "E_FREQ_INFINITY", modeNum, 0)
              [] isFinite(freq) /\ freq.v <= 0 ->
                   check(rep, TRUE, "E_FREQ_NON_POSITIVE", modeNum, freq.v)
              [] OTHER -> rep
  IN warn(r1, isFinite(freq) /\ freq.v > FREQ_HIGH_HZ, "W_FREQ_HIGH", modeNum, freq.v)

RECURSIVE CheckFreqLoop(_, _, _)
CheckFreqLoop(rep, freqHz, i) ==
  IF i > Len(freqHz) \/ rep.returned THEN rep
  ELSE CheckFreqLoop(CheckFreq(rep, freqHz[i][1], freqHz[i][2]), freqHz, i + 1)

CheckFreqHz(rep, data) == CheckFreqLoop(rep, data.freqHz, 1)

RECURSIVE CheckParityLoop(_, _, _, _, _)
CheckParityLoop(rep, keys, other, i, dir) ==
  IF i > Len(keys) \/ rep.returned THEN rep
  ELSE CheckParityLoop(
         check(rep, ~MapHas(other, keys[i]), "E_MODE_FREQ_MISMATCH", keys[i], dir),
         keys, other, i + 1, dir)

\* The parity check in one direction only.
CheckModeFreqParityOneWay(rep, data) ==
  CheckParityLoop(rep, MapKeys(data.modes), data.freqHz, 1, 1)
CheckModeFreqParity(rep, data) ==
  LET r1 == CheckParityLoop(rep, MapKeys(data.modes), data.freqHz, 1, 1)
  IN CheckParityLoop(r1, MapKeys(data.freqHz), data.modes, 1, 2)

\* One amplitude: the report after it and whether allZero survives it.
CheckUz(st, nodes, modeNum, nodeId, uz) ==
  LET r1 == check(st.rep, ~MapHas(nodes, nodeId), "E_MODE_NODE_UNDEF", modeNum, nodeId)
      r2 == CASE isNaN(uz) -> check(r1, TRUE, "E_UZ_NAN", modeNum, nodeId)
              [] ~isNaN(uz) /\ ~isFinite(uz) ->
                   check(r1, TRUE, "E_UZ_INFINITY", modeNum, nodeId)
              [] OTHER -> r1
      nonZero == ~r1.returned /\ isFinite(uz) /\ Abs(uz.v) > EPS
  IN [rep |-> r2, allZero |-> st.allZero /\ ~nonZero]

RECURSIVE CheckUzLoop(_, _, _, _, _)
CheckUzLoop(st, nodes, modeNum, uzMap, i) ==
  IF i > Len(uzMap) \/ st.rep.returned THEN st
  ELSE CheckUzLoop(CheckUz(st, nodes, modeNum, uzMap[i][1], uzMap[i][2]),
                   nodes, modeNum, uzMap, i + 1)

CheckMode(rep, nodes, modeNum, uzMap) ==
  LET st == CheckUzLoop([rep |-> rep, allZero |-> TRUE], nodes, modeNum, uzMap, 1)
  IN warn(st.rep, st.allZero /\ Len(uzMap) > 0, "W_MODE_ALL_ZERO", modeNum, 0)

RECURSIVE CheckModeLoop(_, _, _, _)
CheckModeLoop(rep, nodes, modes, i) ==
  IF i > Len(modes) \/ rep.returned THEN rep
  ELSE CheckModeLoop(CheckMode(rep, nodes, modes[i][1], modes[i][2]),
                     nodes, modes, i + 1)

CheckModes(rep, data) == CheckModeLoop(rep, data.nodes, data.modes, 1)

\* Uneven elevations pushed on errors.
CheckZMixedAsError(rep, data) ==
  LET zValues == [i \in 1..Len(data.nodes) |-> data.nodes[i][2].z]
      mixed == Len(zValues) > 0
               /\ \E i \in 1..Len(zValues) : Abs(zValues[i] - zValues[1]) > EPS
  IN check(rep, mixed, "W_NODE_Z_MIXED", 0, 0)
CheckZMixed(rep, data) ==
  LET zValues == [i \in 1..Len(data.nodes) |-> data.nodes[i][2].z]
      mixed == Len(zValues) > 0
               /\ \E i \in 1..Len(zValues) : Abs(zValues[i] - zValues[1]) > EPS
  IN warn(rep, mixed, "W_NODE_Z_MIXED", 0, 0)

\* The body of validateFloorData: the checks in the order of the function
\* body, up to whichever return statement ends it.
validateRun(data) ==
  LET r1 == CheckRequiredKeys(EmptyReport, data)
      r2 == CheckNodesEmpty(r1, data)
      r3 == CheckNodeDuplicates(r2, data)
      r4 == CheckLinesEmpty(r3, data)
      r5 == CheckLines(r4, data)
      r6 == CheckFreqHz(r5, data)
      r7 == CheckModeFreqParity(r6, data)
      r8 == CheckModes(r7, data)
  IN CheckZMixed(r8, data)

\* validateFloorData({ nodes, lines, freqHz, modes }) returns { errors,
\* warnings }.
validateFloorData(data) ==
  LET r == validateRun(data)
  IN [errors |-> r.errors, warnings |-> r.warnings]

\* ------------------------------------------------------------------------
\* animation.js
\* ------------------------------------------------------------------------
SCALE_MIN == 5
SCALE_MAX == 30
SPEED_MIN == 2
SPEED_MAX == 20
SCALE_INIT == 10
SPEED_INIT == 10
AREF_DIVISOR == 10

Min(a, b) == IF a < b THEN a ELSE b
Max(a, b) == IF a > b THEN a ELSE b

RECURSIVE SeqMax(_, _, _)
SeqMax(s, i, acc) == IF i > Len(s) THEN acc ELSE SeqMax(s, i + 1, Max(acc, s[i]))
RECURSIVE SeqMin(_, _, _)
SeqMin(s, i, acc) == IF i > Len(s) THEN acc ELSE SeqMin(s, i + 1, Min(acc, s[i]))

\* _computeFloorMetrics without the substitution of 1 for a zero extent.
computeLFloorNoSubstitute(nodes) ==
  LET xs == [i \in 1..Len(nodes) |-> nodes[i][2].x]
      ys == [i \in 1..Len(nodes) |-> nodes[i][2].y]
      rangeX == SeqMax(xs, 1, xs[1]) - SeqMin(xs, 1, xs[1])
      rangeY == SeqMax(ys, 1, ys[1]) - SeqMin(ys, 1, ys[1])
  IN Max(rangeX, rangeY)
\* _computeFloorMetrics, for a node Map that is not empty (an empty one is a
\* fatal error of the validator and never reaches the constructor).
computeLFloor(nodes) ==
  LET xs == [i \in 1..Len(nodes) |-> nodes[i][2].x]
      ys == [i \in 1..Len(nodes) |-> nodes[i][2].y]
      rangeX == SeqMax(xs, 1, xs[1]) - SeqMin(xs, 1, xs[1])
      rangeY == SeqMax(ys, 1, ys[1]) - SeqMin(ys, 1, ys[1])
      lFloor == Max(rangeX, rangeY)
  IN IF lFloor = 0 THEN 1 ELSE lFloor

\* Umax without the substitution of 1 for 0.
computeUmaxNoSubstitute(modeShape) ==
  SeqMax([i \in 1..Len(modeShape) |-> Abs(modeShape[i][2].v)], 1, 0)
\* Umax of one mode shape: the largest |uz|, 1 when that is 0.
computeUmax(modeShape) ==
  LET absUz == [i \in 1..Len(modeShape) |-> Abs(modeShape[i][2].v)]
      umax == SeqMax(absUz, 1, 0)
  IN IF umax = 0 THEN 1 ELSE umax

computeUmaxMap(modes) ==
  [i \in 1..Len(modes) |-> <<modes[i][1], computeUmax(modes[i][2])>>]

\* Array.prototype.sort((a, b) => a - b).
RECURSIVE InsertSorted(_, _)
InsertSorted(s, x) ==
  IF s = <<>> THEN <<x>>
  ELSE IF x < s[1] THEN <<x>> \o s
  ELSE <<s[1]>> \o InsertSorted(Tail(s), x)
RECURSIVE SortNumeric(_)
SortNumeric(s) ==
  IF s = <<>> THEN <<>> ELSE InsertSorted(SortNumeric(Tail(s)), s[1])

\* Array.prototype.sort() with no comparator orders numbers as strings.
RECURSIVE Digits(_)
Digits(n) == IF n < 10 THEN <<n>> ELSE Append(Digits(n \div 10), n % 10)
RECURSIVE LexLess(_, _)
LexLess(a, b) ==
  IF a = <<>> THEN b # <<>>
  ELSE IF b = <<>> THEN FALSE
  ELSE IF a[1] # b[1] THEN a[1] < b[1]
  ELSE LexLess(Tail(a), Tail(b))
RECURSIVE InsertLex(_, _)
InsertLex(s, x) ==
  IF s = <<>> THEN <<x>>
  ELSE IF LexLess(Digits(x), Digits(s[1])) THEN <<x>> \o s
  ELSE <<s[1]>> \o InsertLex(Tail(s), x)
RECURSIVE SortAsStrings(_)
SortAsStrings(s) ==
  IF s = <<>> THEN <<>> ELSE InsertLex(SortAsStrings(Tail(s)), s[1])
computeModeListAsStrings(modes) == SortAsStrings(MapKeys(modes))

computeModeList(modes) == SortNumeric(MapKeys(modes))

\* new AnimationController(floorData).  loadData constructs it from validated
\* datasets only, so every frequency and amplitude it reads is finite.
AnimationController(floorData) ==
  LET lFloor == computeLFloor(floorData.nodes)
      modeList == computeModeList(floorData.modes)
  IN [nodes |-> floorData.nodes,
      lines |-> floorData.lines,
      freqHz |-> floorData.freqHz,
      modes |-> floorData.modes,
      lFloor |-> lFloor,
      aRef |-> <<lFloor, AREF_DIVISOR>>,
      umaxMap |-> computeUmaxMap(floorData.modes),
      currentMode |-> IF Len(modeList) > 0 THEN <<modeList[1]>> ELSE <<>>,
      scale |-> SCALE_INIT,
      speed |-> SPEED_INIT,
      time |-> 0,
      playing |-> FALSE,
      modeList |-> modeList]

\* setMode returning early when modeNum is already selected.
setModeUnlessSame(c, modeNum) ==
  IF c.currentMode = <<modeNum>> THEN c
  ELSE [c EXCEPT !.currentMode = <<modeNum>>, !.time = 0, !.playing = FALSE]
setMode(c, modeNum) ==
  [c EXCEPT !.currentMode = <<modeNum>>, !.time = 0, !.playing = FALSE]

\* play without its guard, and play refusing a mode the dataset lacks.
playAlways(c) == [c EXCEPT !.playing = TRUE]
playListedOnly(c) ==
  IF c.currentMode # <<>> /\ MapHas(c.modes, c.currentMode[1])
  THEN [c EXCEPT !.playing = TRUE] ELSE c
play(c) == IF c.currentMode # <<>> THEN [c EXCEPT !.playing = TRUE] ELSE c

\* stop that also rewinds.
stopAndRewind(c) == [c EXCEPT !.playing = FALSE, !.time = 0]
stop(c) == [c EXCEPT !.playing = FALSE]

\* setScale without Math.min.
setScaleNoUpper(c, s) == [c EXCEPT !.scale = Max(SCALE_MIN, s)]
setScale(c, s) == [c EXCEPT !.scale = Max(SCALE_MIN, Min(SCALE_MAX, s))]

\* setSpeed with setScale's limits.
setSpeedScaleRange(c, speed) ==
  [c EXCEPT !.speed = Max(SCALE_MIN, Min(SCALE_MAX, speed))]
setSpeed(c, speed) == [c EXCEPT !.speed = Max(SPEED_MIN, Min(SPEED_MAX, speed))]

\* update without its guard, and update adding deltaTime alone.
updateWhileStopped(c, deltaTime) == [c EXCEPT !.time = @ + deltaTime * c.speed]
updateIgnoringSpeed(c, deltaTime) ==
  IF c.playing THEN [c EXCEPT !.time = @ + deltaTime * SPEED_INIT] ELSE c
update(c, deltaTime) ==
  IF c.playing THEN [c EXCEPT !.time = @ + deltaTime * c.speed] ELSE c

getSpeed(c) == c.speed
getTime(c) == c.time
isPlaying(c) == c.playing
getModeList(c) == c.modeList

\* A displaced elevation z + K * sin(2 pi f t) is held exactly, as
\* <<z, num, den, phase>>: K = num / den in lowest terms with den > 0, and
\* phase = f * t (in 1e-4 cycles).  Math.sin is 0 at 0 and at no other
\* argument a double can hold, so the term is dropped, and the value is
\* <<z, 0, 1, 0>>, exactly when K = 0 or phase = 0.  K is
\* (scale / 10) * (aRef[1] / aRef[2]) * (uz / umax), scale being in tenths.
RECURSIVE Gcd(_, _)
Gcd(a, b) == IF b = 0 THEN a ELSE Gcd(b, a % b)

\* The displacement with a cosine for the sine: at its largest at phase 0.
ElevationCosine(z, num, den, phase) ==
  IF num = 0 THEN <<z, 0, 1, 0>>
  ELSE LET g == Gcd(Abs(num), den)
       IN <<z, num \div g, den \div g, phase>>
Elevation(z, num, den, phase) ==
  IF num = 0 \/ phase = 0 THEN <<z, 0, 1, 0>>
  ELSE LET g == Gcd(Abs(num), den)
       IN <<z, num \div g, den \div g, phase>>

\* getDisplacedZ going on with an undefined node: undefined.z + u_i is NaN,
\* held as a fraction with denominator 0.
getDisplacedZUnguarded(c, nodeId) ==
  IF ~MapHas(c.nodes, nodeId) THEN <<0, 0, 0, 0>>
  ELSE LET z_i == MapGet(c.nodes, nodeId).z
       IN IF c.currentMode = <<>> THEN <<z_i, 0, 1, 0>>
          ELSE IF ~MapHas(c.modes, c.currentMode[1]) THEN <<z_i, 0, 1, 0>>
          ELSE LET modeShape == MapGet(c.modes, c.currentMode[1])
                   uz_im == IF MapHas(modeShape, nodeId)
                            THEN MapGet(modeShape, nodeId).v ELSE 0
                   umaxM == MapGet(c.umaxMap, c.currentMode[1])
                   freqM == IF MapHas(c.freqHz, c.currentMode[1])
                            THEN MapGet(c.freqHz, c.currentMode[1]).v ELSE 0
               IN Elevation(z_i, c.scale * c.aRef[1] * uz_im,
                            10 * c.aRef[2] * umaxM, freqM * c.time)
getDisplacedZ(c, nodeId) ==
  IF ~MapHas(c.nodes, nodeId) THEN <<0, 0, 1, 0>>
  ELSE LET z_i == MapGet(c.nodes, nodeId).z
       IN IF c.currentMode = <<>> THEN <<z_i, 0, 1, 0>>
          ELSE IF ~MapHas(c.modes, c.currentMode[1]) THEN <<z_i, 0, 1, 0>>
          ELSE LET modeShape == MapGet(c.modes, c.currentMode[1])
                   uz_im == IF MapHas(modeShape, nodeId)
                            THEN MapGet(modeShape, nodeId).v ELSE 0
                   umaxM == MapGet(c.umaxMap, c.currentMode[1])
                   freqM == IF MapHas(c.freqHz, c.currentMode[1])
                            THEN MapGet(c.freqHz, c.currentMode[1]).v ELSE 0
               IN Elevation(z_i, c.scale * c.aRef[1] * uz_im,
                            10 * c.aRef[2] * umaxM, freqM * c.time)

\* getFreqHz(modeNum): modeNum is <<>> when the argument is omitted.  The
\* "|| 0" turns a missing entry, NaN and 0 into 0.
getFreqHz(c, modeNum) ==
  LET asked == IF modeNum = <<>> THEN c.currentMode ELSE modeNum
  IN IF asked = <<>> \/ ~MapHas(c.freqHz, asked[1]) THEN Fin(0)
     ELSE LET f == MapGet(c.freqHz, asked[1])
          IN IF isNaN(f) \/ (isFinite(f) /\ f.v = 0) THEN Fin(0) ELSE f

\* ------------------------------------------------------------------------
\* Inputs
\* ------------------------------------------------------------------------
MaxTime == 600
\* The length of the longest lines array: each of its lines but the first
\* draws four errors, so the validator's cap is passed within the array.
MaxLines == 26

Num(n) == [t |-> "num", v |-> n]
Str == [t |-> "str", v |-> 0]
Big(sign) == [t |-> "big", v |-> sign]
Null == [t |-> "null", v |-> 0]
RawNode(id, x, y, z) == [id |-> id, x |-> <<x>>, y |-> <<y>>, z |-> <<z>>]
RawLine(id, i, j) == [id |-> id, nodeI |-> i, nodeJ |-> j]
Document(nodes, lines, freqHz, modes) ==
  [wellFormed |-> TRUE, top |-> "object", hasNodes |-> TRUE, nodes |-> nodes,
   hasLines |-> TRUE, lines |-> lines, hasFreqHz |-> TRUE, freqHz |-> freqHz,
   hasModes |-> TRUE, modes |-> modes]

Triangle == <<RawNode(1, 0, 0, 0), RawNode(2, 6, 0, 0), RawNode(3, 6, 4, 0)>>
TwoLines == <<RawLine(1, 1, 2), RawLine(2, 2, 3)>>

\* Two modes, node 1 unlisted in mode 1, one frequency above 30 Hz.
DocSample ==
  Document(Triangle, TwoLines, (1 :> Num(5)) @@ (2 :> Num(35)),
           (1 :> ((2 :> Num(4)) @@ (3 :> Num(10))))
           @@ (2 :> ((1 :> Num(-3)) @@ (2 :> Num(0)) @@ (3 :> Num(2)))))
\* Modes 2 and 10; mode 2 lists no amplitude at all.
DocZeroMode ==
  Document(Triangle, TwoLines, (2 :> Num(5)) @@ (10 :> Num(8)),
           (2 :> <<>>) @@ (10 :> ((1 :> Num(1)) @@ (3 :> Num(-7)))))
\* No modes and no frequencies.
DocNoModes == Document(Triangle, TwoLines, <<>>, <<>>)
\* A self-loop and a frequency without a mode.
DocInvalid ==
  Document(Triangle, <<RawLine(1, 1, 1)>>, (1 :> Num(5)) @@ (2 :> Num(0)),
           (1 :> (2 :> Num(4))))
\* Text that is not JSON.
DocMalformed == [DocNoModes EXCEPT !.wellFormed = FALSE]
\* Two nodes on one vertical, away from the origin and at different
\* elevations; mode 1 lists no amplitude, mode 2 has its largest one negative.
DocColumn ==
  Document(<<RawNode(1, 2, 2, 1), RawNode(2, 2, 2, 4)>>, <<RawLine(1, 1, 2)>>,
           (1 :> Num(5)) @@ (2 :> Num(8)),
           (1 :> <<>>) @@ (2 :> ((1 :> Num(-2)) @@ (2 :> Num(1)))))

\* The texts handed to loadData.
Documents ==
  <<DocSample, DocZeroMode, DocNoModes, DocInvalid, DocMalformed, DocColumn>>

ModeInputs == {1, 2, 10}
ScaleInputs == {3, 17, 100}
SpeedInputs == {0, 4, 50}
DeltaTimes == {0, 50}
NodeIdInputs == {1, 3, 9}

\* The texts of the pipeline specification: every combination of these
\* node arrays, line arrays, frequency objects and mode objects.
NodeArrays ==
  { <<>>,
    Triangle,
    <<RawNode(1, 0, 0, 0), RawNode(2, 6, 0, 0), RawNode(1, 3, 4, 2)>>,
    <<RawNode(2, 1, 1, 0), RawNode(2, 5, 5, 5), RawNode(3, 6, 4, 0)>>,
    <<RawNode(1, 0, 0, 0), RawNode(1, 1, 1, 1), RawNode(1, 2, 2, 2)>>,
    <<[id |-> 1, x |-> <<>>, y |-> <<3>>, z |-> <<>>], RawNode(2, 6, 0, 1)>>,
    <<RawNode(1, 0, 0, 0), RawNode(2, 6, 0, 3)>> }
LineArrays ==
  { <<>>, TwoLines, <<RawLine(1, 1, 2)>>, <<RawLine(1, 1, 1)>>,
    <<RawLine(1, 1, 2), RawLine(1, 2, 4)>>,
    <<RawLine(1, 7, 7), RawLine(2, 1, 2), RawLine(1, 8, 9)>> }
FreqObjects ==
  { <<>>, (1 :> Num(5)), (1 :> Num(5)) @@ (2 :> Num(35)), (1 :> Num(0)),
    (1 :> Str) @@ (2 :> Big(1)), (2 :> Null) @@ (3 :> Big(-1)) }
ModeObjects ==
  { <<>>,
    (1 :> ((2 :> Num(4)) @@ (3 :> Num(10)))),
    (1 :> <<>>) @@ (2 :> ((1 :> Num(1)) @@ (2 :> Num(-1)))),
    (2 :> ((1 :> Str) @@ (4 :> Num(2)))),
    (1 :> ((1 :> Big(1)) @@ (2 :> Num(2)))),
    (1 :> (1 :> Str)) @@ (2 :> ((1 :> Num(1)) @@ (2 :> Big(-1)))) }
\* The sample with some of its four required keys left out.
MissingKeyDocuments ==
  { [DocSample EXCEPT !.hasNodes = "nodes" \notin K,
                      !.hasLines = "lines" \notin K,
                      !.hasFreqHz = "freqHz" \notin K,
                      !.hasModes = "modes" \notin K] :
      K \in (SUBSET {"nodes", "lines", "freqHz", "modes"}) \ {{}} }
\* Lines that all carry id 1 and join the undefined node 7 to itself: three
\* errors for the first and four for each of the others.
BadLines(n) == [i \in 1..n |-> RawLine(1, 7, 7)]
\* Texts with a hundred errors or more: the hundredth found among the lines,
\* or at a frequency with a warning due before it or after it.
ManyErrorDocuments ==
  { Document(Triangle, BadLines(MaxLines), (1 :> Num(35)), (1 :> (1 :> Num(1)))),
    Document(Triangle, BadLines(MaxLines - 1), (1 :> Num(0)) @@ (2 :> Num(35)),
             (1 :> <<>>)),
    Document(Triangle, BadLines(MaxLines - 1), (1 :> Num(35)) @@ (2 :> Num(0)),
             (1 :> <<>>)) }
\* Well-formed texts that are no object of arrays of objects: the sample
\* with null, a number, a string or an array for its top-level value, and
\* with null for an entry of nodes or of lines.
OddDocuments ==
  { [DocSample EXCEPT !.top = t] : t \in {"null", "number", "string", "array"} }
  \cup { [DocSample EXCEPT !.nodes = <<RawNode(1, 0, 0, 0), Null>>],
         [DocSample EXCEPT !.lines = <<Null, RawLine(2, 2, 3)>>] }
PipelineDocuments ==
  { Document(n, l, f, m) :
      n \in NodeArrays, l \in LineArrays, f \in FreqObjects, m \in ModeObjects }
  \cup { DocMalformed } \cup MissingKeyDocuments \cup ManyErrorDocuments
  \cup OddDocuments

\* ------------------------------------------------------------------------
\* app.js
\* ------------------------------------------------------------------------
VARIABLES
  started,         \* initApp has made its first load attempt
  animController,  \* <<>> (null) or <<the controller>>
  viewerData,      \* <<>> or <<the dataset the viewer's scene was built from>>
  messages,        \* the codes shown in #error-container
  uiAttached,      \* setupUI has attached the listeners
  rafId,           \* 0, or the id of the last requested frame
  pendingFrames,   \* the ids of the animationLoop callbacks scheduled
  listeners,       \* per control: its slot property and attached handlers
  framesSinceLoad, \* frames run since the last successful load: 0, 1, 2 = more
  prevTimestamp,   \* 0, or 1 when it holds the previous frame's timestamp
  loadedDoc,       \* which of Documents the active controller was built from
  lastOp,          \* the last call: [op, arg]
  ret,             \* what it returned, as a sequence of integers
  prev,            \* the playback state before it
  frozen,          \* <<>>, or <<what stop() left on display>> until play,
                   \* setMode, setScale or a new controller
  pipe             \* the pipeline specification's text, dataset and report

appVars == <<started, animController, viewerData, messages, uiAttached, rafId,
             pendingFrames, prevTimestamp, loadedDoc, lastOp, ret, prev, frozen,
             listeners, framesSinceLoad>>
vars == <<appVars, pipe>>

NoMessages == [errors |-> <<>>, warnings |-> <<>>]
Codes(list) == [i \in 1..Len(list) |-> list[i].code]

NoPlayback ==
  [currentMode |-> <<>>, scale |-> 0, speed |-> 0, time |-> 0, playing |-> FALSE]
Playback(optC) ==
  IF optC = <<>> THEN NoPlayback
  ELSE [currentMode |-> optC[1].currentMode, scale |-> optC[1].scale,
        speed |-> optC[1].speed, time |-> optC[1].time,
        playing |-> optC[1].playing]

Display(c) ==
  [time |-> c.time, z |-> [n \in NodeIdInputs |-> getDisplacedZ(c, n)]]

\* loadData's gate on the report.
\* (a gate that warnings close too)
validationFailedOrWarned(report) ==
  Len(report.errors) > 0 \/ Len(report.warnings) > 0
validationFailed(report) == Len(report.errors) > 0

\* setupUI's calls on the new controller.
setupUI(c) == setScale(setSpeed(c, SPEED_INIT), SCALE_INIT)

\* The controls setupUI gives a handler that closes over the controller.
Controls ==
  {"modeSelect", "btnPlay", "btnStop", "speedSlider", "scaleSlider",
   "btnDownload", "fileInput"}
\* A handler is named by the number of setupUI calls made since the call
\* that created it: 0 is a handler of the latest call, whose controller is
\* the active one.  An element is its slot property (<<>> when unset) and
\* the handlers attached to it, in the order of addEventListener.
NoListener == [slot |-> <<>>, attached |-> <<>>]
RECURSIVE Without(_, _)
Without(handlers, h) ==
  IF handlers = <<>> THEN <<>>
  ELSE IF Head(handlers) = h THEN Tail(handlers)
  ELSE <<Head(handlers)>> \o Without(Tail(handlers), h)
\* replaceListener leaving the old handler attached.
replaceListenerKeepOld(el, handler) ==
  [slot |-> <<handler>>, attached |-> Append(el.attached, handler)]
replaceListener(el, handler) ==
  LET removed == IF el.slot # <<>> THEN Without(el.attached, el.slot[1])
                 ELSE el.attached
  IN [slot |-> <<handler>>, attached |-> Append(removed, handler)]
\* The handlers of the earlier calls, seen from one more setupUI call.
Older(el) ==
  [slot |-> IF el.slot = <<>> THEN <<>> ELSE <<el.slot[1] + 1>>,
   attached |-> [i \in 1..Len(el.attached) |-> el.attached[i] + 1]]
\* setupUI's listener registrations.
setupListeners(ls) == [el \in Controls |-> replaceListener(Older(ls[el]), 0)]
\* The control has a handler bound to the active controller.  A handler of
\* an earlier call would act on the controller of that call.
Handles(el) == \E i \in 1..Len(listeners[el].attached) : listeners[el].attached[i] = 0

\* onDownload: the number of viewer.savePNG calls the click makes.
onDownloadUnguarded(c) == 1
onDownload(c) == IF isPlaying(c) THEN 0 ELSE 1

\* The id requestAnimationFrame returns: ids are only compared for
\* equality, so the smallest id not scheduled stands for a new one.
NewFrameId(scheduled) ==
  CHOOSE id \in 1..(Cardinality(scheduled) + 1) : id \notin scheduled

\* loadData(jsonText) up to the point where it touches the application's
\* state: whether it goes on (ok), what it shows, and the dataset and the
\* controller it installs.
loadData(doc) ==
  IF parseThrows(doc)
  THEN [ok |-> FALSE, report |-> <<>>,
        messages |-> [errors |-> <<"E_JSON_PARSE">>, warnings |-> <<>>]]
  ELSE LET data == parseFloorData(doc)
           report == validateFloorData(data)
       IN IF validationFailed(report)
          THEN [ok |-> FALSE, report |-> <<report>>,
                messages |-> [errors |-> Codes(report.errors),
                              warnings |-> Codes(report.warnings)]]
          ELSE [ok |-> TRUE, report |-> <<report>>,
                messages |-> [errors |-> <<>>,
                              warnings |-> Codes(report.warnings)],
                data |-> data,
                controller |-> setupUI(AnimationController(data))]

\* loadData of each of Documents, evaluated once.
RECURSIVE LoadEach(_)
LoadEach(d) ==
  IF d > Len(Documents) THEN <<>>
  ELSE <<loadData(Documents[d])>> \o LoadEach(d + 1)
Loaded == LoadEach(1)

IdlePipe ==
  [stage |-> "idle", doc |-> <<>>, data |-> <<>>, report |-> <<>>, log |-> <<>>]

Init ==
  /\ started = FALSE
  /\ animController = <<>>
  /\ viewerData = <<>>
  /\ messages = NoMessages
  /\ uiAttached = FALSE
  /\ rafId = 0
  /\ pendingFrames = {}
  /\ prevTimestamp = 0
  /\ loadedDoc = 0
  /\ lastOp = [op |-> "init", arg |-> 0]
  /\ ret = <<>>
  /\ prev = NoPlayback
  /\ frozen = <<>>
  /\ listeners = [el \in Controls |-> NoListener]
  /\ framesSinceLoad = 0
  /\ pipe = IdlePipe

\* loadData cancelling the scheduled frame before it parses the text.
LoadDataCancelFirst(d) ==
  /\ ~started \/ uiAttached
  /\ started' = TRUE
  /\ lastOp' = [op |-> "loadData", arg |-> d]
  /\ prev' = Playback(animController)
  /\ messages' = Loaded[d].messages
  /\ IF ~Loaded[d].ok
     THEN /\ ret' = <<0>>
          /\ rafId' = 0
          /\ pendingFrames' = pendingFrames \ {rafId}
          /\ UNCHANGED <<animController, viewerData, uiAttached,
                         prevTimestamp, loadedDoc, frozen, listeners,
                         framesSinceLoad>>
     ELSE LET kept == pendingFrames \ {rafId}
          IN /\ rafId' = NewFrameId(kept)
             /\ pendingFrames' = kept \cup {NewFrameId(kept)}
             /\ viewerData' = <<Loaded[d].data>>
             /\ animController' = <<Loaded[d].controller>>
             /\ listeners' = setupListeners(listeners)
             /\ uiAttached' = TRUE
             /\ prevTimestamp' = 0
             /\ framesSinceLoad' = 0
             /\ loadedDoc' = d
             /\ frozen' = <<>>
             /\ ret' = <<1>>
  /\ UNCHANGED pipe
\* loadData scheduling its frame without cancelling the one scheduled.
LoadDataNoCancel(d) ==
  /\ ~started \/ uiAttached
  /\ started' = TRUE
  /\ lastOp' = [op |-> "loadData", arg |-> d]
  /\ prev' = Playback(animController)
  /\ messages' = Loaded[d].messages
  /\ IF ~Loaded[d].ok
     THEN /\ ret' = <<0>>
          /\ UNCHANGED <<animController, viewerData, uiAttached, rafId,
                         pendingFrames, prevTimestamp, loadedDoc, frozen,
                         listeners, framesSinceLoad>>
     ELSE /\ rafId' = NewFrameId(pendingFrames)
          /\ pendingFrames' = pendingFrames \cup {NewFrameId(pendingFrames)}
          /\ viewerData' = <<Loaded[d].data>>
          /\ animController' = <<Loaded[d].controller>>
          /\ listeners' = setupListeners(listeners)
          /\ uiAttached' = TRUE
          /\ prevTimestamp' = 0
          /\ framesSinceLoad' = 0
          /\ loadedDoc' = d
          /\ frozen' = <<>>
          /\ ret' = <<1>>
  /\ UNCHANGED pipe
\* loadData(jsonText), called by initApp with the sample and by the file
\* input's handler afterwards.  cancelAnimationFrame takes the frame rafId
\* names, if any, off the schedule.
LoadData(d) ==
  /\ ~started \/ uiAttached
  /\ started' = TRUE
  /\ lastOp' = [op |-> "loadData", arg |-> d]
  /\ prev' = Playback(animController)
  /\ messages' = Loaded[d].messages
  /\ IF ~Loaded[d].ok
     THEN /\ ret' = <<0>>
          /\ UNCHANGED <<animController, viewerData, uiAttached, rafId,
                         pendingFrames, prevTimestamp, loadedDoc, frozen,
                         listeners, framesSinceLoad>>
     ELSE LET kept == IF rafId # 0 THEN pendingFrames \ {rafId}
                      ELSE pendingFrames
          IN /\ rafId' = NewFrameId(kept)
             /\ pendingFrames' = kept \cup {NewFrameId(kept)}
             /\ viewerData' = <<Loaded[d].data>>
             /\ animController' = <<Loaded[d].controller>>
             /\ listeners' = setupListeners(listeners)
             /\ uiAttached' = TRUE
             /\ prevTimestamp' = 0
             /\ framesSinceLoad' = 0
             /\ loadedDoc' = d
             /\ frozen' = <<>>
             /\ ret' = <<1>>
  /\ UNCHANGED pipe

\* initApp's catch branch: the sample could not be fetched.
FetchFailed ==
  /\ ~started
  /\ started' = TRUE
  /\ messages' = [errors |-> <<"E_FETCH">>, warnings |-> <<>>]
  /\ prevTimestamp' = 0
  /\ rafId' = NewFrameId(pendingFrames)
  /\ pendingFrames' = pendingFrames \cup {NewFrameId(pendingFrames)}
  /\ lastOp' = [op |-> "fetchFailed", arg |-> 0]
  /\ ret' = <<>>
  /\ prev' = Playback(animController)
  /\ UNCHANGED <<animController, viewerData, uiAttached, loadedDoc, frozen,
                 listeners, framesSinceLoad, pipe>>

\* animationLoop(timestamp): one scheduled callback runs and schedules the
\* next; elapsed is timestamp - prevTimestamp when prevTimestamp is set.
AnimationLoop(elapsed) ==
  /\ \E frame \in pendingFrames :
       LET others == pendingFrames \ {frame}
       IN /\ rafId' = NewFrameId(others)
          /\ pendingFrames' = others \cup {NewFrameId(others)}
  /\ LET delta == IF prevTimestamp = 0 THEN 0 ELSE elapsed
     IN /\ prevTimestamp' = 1
        /\ prev' = Playback(animController)
        /\ ret' = <<>>
        /\ IF animController = <<>>
           THEN /\ lastOp' = [op |-> "animationLoop", arg |-> delta]
                /\ UNCHANGED animController
           ELSE /\ update(animController[1], delta).time <= MaxTime
                /\ lastOp' = [op |-> "update", arg |-> delta]
                /\ animController' = <<update(animController[1], delta)>>
  /\ framesSinceLoad' = IF framesSinceLoad = 0 THEN 1 ELSE 2
  /\ UNCHANGED <<started, viewerData, messages, uiAttached, loadedDoc, frozen,
                 listeners, pipe>>

\* A call on the active controller that returns nothing.
Call(op, arg, c, frozenAfter) ==
  /\ lastOp' = [op |-> op, arg |-> arg]
  /\ prev' = Playback(animController)
  /\ ret' = <<>>
  /\ animController' = <<c>>
  /\ frozen' = frozenAfter
  /\ UNCHANGED <<started, viewerData, messages, uiAttached, rafId,
                 pendingFrames, prevTimestamp, loadedDoc, listeners,
                 framesSinceLoad, pipe>>

\* A getter: the controller is read and the value returned.
Get(op, arg, value) ==
  /\ lastOp' = [op |-> op, arg |-> arg]
  /\ prev' = Playback(animController)
  /\ ret' = value
  /\ UNCHANGED <<started, animController, viewerData, messages, uiAttached,
                 rafId, pendingFrames, prevTimestamp, loadedDoc, frozen,
                 listeners, framesSinceLoad, pipe>>

SetMode(m) ==
  /\ animController # <<>> /\ Handles("modeSelect")
  /\ Call("setMode", m, setMode(animController[1], m), <<>>)

Play ==
  /\ animController # <<>> /\ Handles("btnPlay")
  /\ Call("play", 0, play(animController[1]), <<>>)

Stop ==
  /\ animController # <<>> /\ Handles("btnStop")
  /\ Call("stop", 0, stop(animController[1]),
          <<Display(stop(animController[1]))>>)

SetScale(s) ==
  /\ animController # <<>> /\ Handles("scaleSlider")
  /\ Call("setScale", s, setScale(animController[1], s), <<>>)

SetSpeed(v) ==
  /\ animController # <<>> /\ Handles("speedSlider")
  /\ Call("setSpeed", v, setSpeed(animController[1], v), frozen)

GetDisplacedZ(n) ==
  /\ animController # <<>>
  /\ Get("getDisplacedZ", n, getDisplacedZ(animController[1], n))

GetSpeed ==
  /\ animController # <<>>
  /\ Get("getSpeed", 0, <<getSpeed(animController[1])>>)

GetModeList ==
  /\ animController # <<>>
  /\ Get("getModeList", 0, getModeList(animController[1]))

\* A click on the Save-PNG button.
Download ==
  /\ animController # <<>> /\ Handles("btnDownload")
  /\ Get("download", 0, <<onDownload(animController[1])>>)

\* getFreqHz() when m = 0 and getFreqHz(m) otherwise.
GetFreqHz(m) ==
  /\ animController # <<>>
  /\ Get("getFreqHz", m,
         <<getFreqHz(animController[1], IF m = 0 THEN <<>> ELSE <<m>>).v>>)

Next ==
  \/ \E d \in 1..Len(Documents) : LoadData(d)
  \/ FetchFailed
  \/ \E elapsed \in DeltaTimes : AnimationLoop(elapsed)
  \/ \E m \in ModeInputs : SetMode(m)
  \/ Play
  \/ Stop
  \/ \E s \in ScaleInputs : SetScale(s)
  \/ \E v \in SpeedInputs : SetSpeed(v)
  \/ \E n \in NodeIdInputs : GetDisplacedZ(n)
  \/ GetSpeed
  \/ GetModeList
  \/ \E m \in {0} \cup ModeInputs : GetFreqHz(m)
  \/ Download

Spec == Init /\ [][Next]_vars

\* ------------------------------------------------------------------------
\* The pipeline on its own: a text is parsed, the dataset validated
\* ------------------------------------------------------------------------
PipelineInit ==
  /\ Init!1 /\ Init!2 /\ Init!3 /\ Init!4 /\ Init!5 /\ Init!6 /\ Init!7
  /\ Init!8 /\ Init!9 /\ Init!10 /\ Init!11 /\ Init!12 /\ Init!13
  /\ Init!14 /\ Init!15
  /\ \E doc \in PipelineDocuments :
       pipe = [stage |-> "text", doc |-> <<doc>>, data |-> <<>>,
               report |-> <<>>, log |-> <<>>]

Parse ==
  /\ pipe.stage = "text"
  /\ pipe' = IF parseThrows(pipe.doc[1])
             THEN [pipe EXCEPT !.stage = "failed"]
             ELSE [pipe EXCEPT !.stage = "parsed",
                               !.data = <<parseFloorData(pipe.doc[1])>>]
  /\ UNCHANGED appVars

Validate ==
  /\ pipe.stage = "parsed"
  /\ pipe' = [pipe EXCEPT !.stage = "validated",
                          !.report = <<validateFloorData(pipe.data[1])>>,
                          !.log = validateRun(pipe.data[1]).log]
  /\ UNCHANGED appVars

PipelineNext == Parse \/ Validate

PipelineSpec == PipelineInit /\ [][PipelineNext]_vars

\* ------------------------------------------------------------------------
\* Properties
\* ------------------------------------------------------------------------
Ctl == animController[1]
HasCtl == animController # <<>>
Now == Playback(animController)
CountCode(list, code) == Cardinality({i \in 1..Len(list) : list[i].code = code})

\* The positions i < j of a node array's only two entries with one id.
DuplicatePairs(items) ==
  {p \in (1..Len(items)) \X (1..Len(items)) :
     p[1] < p[2] /\ items[p[1]].id = items[p[2]].id}

\* C1: a text whose nodes array has exactly two entries sharing an id (every
\* other id distinct), parsed and validated, gives a report with exactly one
\* E_NODE_DUPLICATE, and the node Map holds the later entry's x, y, z.
C1_DuplicateReportedOnce ==
  (pipe.stage = "validated" /\ pipe.doc[1].hasNodes
   /\ Cardinality(DuplicatePairs(pipe.doc[1].nodes)) = 1)
  => LET items == pipe.doc[1].nodes
         p == CHOOSE q \in DuplicatePairs(items) : TRUE
         later == items[p[2]]
         node == MapGet(pipe.data[1].nodes, later.id)
     IN /\ CountCode(pipe.report[1].errors, "E_NODE_DUPLICATE") = 1
        /\ node.x = Nullish(later.x, 0)
        /\ node.y = Nullish(later.y, 0)
        /\ node.z = Nullish(later.z, 0)

\* The half of C1 the parser decides: the later entry's values are kept.
C1_LastWriteWins ==
  (pipe.stage = "validated" /\ pipe.doc[1].hasNodes
   /\ Cardinality(DuplicatePairs(pipe.doc[1].nodes)) = 1)
  => LET items == pipe.doc[1].nodes
         p == CHOOSE q \in DuplicatePairs(items) : TRUE
         later == items[p[2]]
         node == MapGet(pipe.data[1].nodes, later.id)
     IN node = [id |-> later.id, x |-> Nullish(later.x, 0),
                y |-> Nullish(later.y, 0), z |-> Nullish(later.z, 0)]

\* C2: loadData installs a controller (and rebuilds the viewer's scene) for a
\* text exactly when it parses and validateFloorData reports no error,
\* whatever the warnings; the active controller always comes from a dataset
\* whose report has no error.
C2_LoadOnlyValidated ==
  /\ HasCtl <=> loadedDoc # 0
  /\ HasCtl =>
       /\ Loaded[loadedDoc].report # <<>>
       /\ Len(Loaded[loadedDoc].report[1].errors) = 0
       /\ viewerData = <<parseFloorData(Documents[loadedDoc])>>
       /\ Ctl.nodes = viewerData[1].nodes /\ Ctl.modes = viewerData[1].modes
       /\ Ctl.freqHz = viewerData[1].freqHz /\ Ctl.lines = viewerData[1].lines
  /\ lastOp.op = "loadData" =>
       LET o == Loaded[lastOp.arg]
           clean == o.report # <<>> /\ Len(o.report[1].errors) = 0
       IN /\ ret = <<1>> <=> clean
          /\ ret = <<1>> => loadedDoc = lastOp.arg
C2_LoadedWithWarnings ==
  /\ lastOp.op = "loadData" /\ ret = <<1>> /\ HasCtl
  /\ Len(messages.warnings) > 0 /\ Len(messages.errors) = 0
  /\ prev # NoPlayback

\* C3: setMode(m) leaves currentMode = m, time = 0 and playing = false from
\* every state, also while playing with time > 0 and when m is already the
\* selected mode.
C3_SetModeResets ==
  lastOp.op = "setMode" =>
    /\ Ctl.currentMode = <<lastOp.arg>>
    /\ Ctl.time = 0
    /\ Ctl.playing = FALSE
C3_SetModeWhilePlaying ==
  /\ lastOp.op = "setMode" /\ prev.playing /\ prev.time > 0
  /\ prev.currentMode = <<lastOp.arg>>

\* C4: stop() clears playing and keeps time, currentMode, scale and speed;
\* from then until play, setMode or setScale, time stays what it was and
\* getDisplacedZ returns for every node what it returned at the stop.
C4_StopHoldsFrame ==
  /\ lastOp.op = "stop" => Now = [prev EXCEPT !.playing = FALSE]
  /\ frozen # <<>> =>
       /\ Ctl.time = frozen[1].time
       /\ \A n \in NodeIdInputs : getDisplacedZ(Ctl, n) = frozen[1].z[n]
  /\ (lastOp.op = "getDisplacedZ" /\ frozen # <<>>) => ret = frozen[1].z[lastOp.arg]
C4_HeldThroughUpdate ==
  /\ frozen # <<>> /\ lastOp.op = "update" /\ lastOp.arg > 0
  /\ Ctl.time > 0
  /\ \E n \in NodeIdInputs : frozen[1].z[n][2] # 0

\* C5: with every deltaTime >= 0, time is smaller after a call than before
\* it only when the call is setMode; play, stop, setScale, setSpeed and the
\* getters leave time as it is.
C5_TimeMonotone ==
  /\ lastOp.op \in {"update", "play", "stop", "setScale", "setSpeed",
                    "getDisplacedZ", "getSpeed", "getModeList"}
       => Ctl.time >= prev.time
  /\ lastOp.op \in {"play", "stop", "setScale", "setSpeed",
                    "getDisplacedZ", "getSpeed", "getModeList"}
       => Ctl.time = prev.time
  /\ lastOp.op = "update" => lastOp.arg >= 0
C5_StopAfterAdvance ==
  /\ lastOp.op = "stop" /\ prev.playing /\ prev.time > 0 /\ Ctl.time = prev.time

\* C6: play() sets playing when a mode is selected and does nothing when
\* none is; so playing implies that a mode is selected.
C6_PlayNeedsMode ==
  /\ lastOp.op = "play" =>
       Now = IF prev.currentMode # <<>> THEN [prev EXCEPT !.playing = TRUE]
             ELSE prev
  /\ (HasCtl /\ Ctl.playing) => Ctl.currentMode # <<>>
C6_PlayWithoutMode ==
  /\ lastOp.op = "play" /\ prev.currentMode = <<>> /\ ~Ctl.playing

\* C7: update(deltaTime) adds deltaTime * speed to time and changes nothing
\* else while playing, and changes nothing at all while stopped.
C7_UpdateAdvances ==
  lastOp.op = "update" =>
    Now = IF prev.playing
          THEN [prev EXCEPT !.time = prev.time + lastOp.arg * prev.speed]
          ELSE prev
C7_UpdateAtOtherSpeed ==
  /\ lastOp.op = "update" /\ prev.playing /\ lastOp.arg > 0
  /\ prev.speed # SPEED_INIT /\ Ctl.time > prev.time

\* C8: setScale(s) stores s clamped into [0.5, 3.0] and changes no other
\* field; scale is always within [0.5, 3.0].
C8_ScaleClamped ==
  /\ lastOp.op = "setScale" =>
       Now = [prev EXCEPT !.scale = IF lastOp.arg < 5 THEN 5
                                    ELSE IF lastOp.arg > 30 THEN 30
                                    ELSE lastOp.arg]
  /\ HasCtl => (5 <= Ctl.scale /\ Ctl.scale <= 30)
C8_ScaleClampedAbove ==
  /\ lastOp.op = "setScale" /\ lastOp.arg = 100 /\ Ctl.scale = 30
  /\ prev.scale = 17

\* C9: setSpeed(v) stores v clamped into [0.2, 2.0] and changes no other
\* field; speed is always within [0.2, 2.0] and getSpeed returns it.
C9_SpeedClamped ==
  /\ lastOp.op = "setSpeed" =>
       Now = [prev EXCEPT !.speed = IF lastOp.arg < 2 THEN 2
                                    ELSE IF lastOp.arg > 20 THEN 20
                                    ELSE lastOp.arg]
  /\ HasCtl => (2 <= Ctl.speed /\ Ctl.speed <= 20)
  /\ lastOp.op = "getSpeed" => ret = <<Ctl.speed>>
C9_SpeedClampedBelow ==
  /\ lastOp.op = "setSpeed" /\ lastOp.arg = 0 /\ Ctl.speed = 2
  /\ prev.speed = 4

IsAscending(s) == \A i \in 1..Len(s), j \in 1..Len(s) : i < j => s[i] < s[j]
Range(s) == {s[i] : i \in 1..Len(s)}

\* C10: a new controller has time 0, is stopped, has scale 1.0 and speed
\* 1.0, and selects the numerically smallest mode number, or none exactly
\* when the dataset has no modes; getModeList is the mode numbers ascending.
C10_InitialState ==
  /\ HasCtl =>
       LET c0 == AnimationController(viewerData[1])
           keys == Range(MapKeys(viewerData[1].modes))
       IN /\ c0.time = 0 /\ c0.playing = FALSE
          /\ c0.scale = 10 /\ c0.speed = 10
          /\ c0.currentMode = <<>> <=> keys = {}
          /\ keys # {} => /\ c0.currentMode[1] \in keys
                          /\ \A k \in keys : c0.currentMode[1] <= k
          /\ IsAscending(getModeList(c0))
          /\ Range(getModeList(c0)) = keys
          /\ getModeList(Ctl) = getModeList(c0)
          /\ (lastOp.op = "loadData" /\ ret = <<1>>) => Now = Playback(<<c0>>)
  /\ lastOp.op = "getModeList" =>
       /\ IsAscending(ret)
       /\ Range(ret) = Range(MapKeys(viewerData[1].modes))
C10_TwoModesLoaded ==
  /\ lastOp.op = "loadData" /\ ret = <<1>>
  /\ MapKeys(viewerData[1].modes) = <<2, 10>>
  /\ Ctl.currentMode = <<2>> /\ Ctl.time = 0 /\ ~Ctl.playing
C10_NoModesLoaded ==
  /\ lastOp.op = "loadData" /\ ret = <<1>>
  /\ viewerData[1].modes = <<>> /\ Ctl.currentMode = <<>>

AtRest(n) == <<MapGet(viewerData[1].nodes, n).z, 0, 1, 0>>
NodeIds == Range(MapKeys(viewerData[1].nodes))

AllZero(modeShape) == \A i \in 1..Len(modeShape) : modeShape[i][2] = Fin(0)

Doc == pipe.doc[1]
Data == pipe.data[1]
Rep == pipe.report[1]
Parsed == pipe.stage \in {"parsed", "validated"}
Validated == pipe.stage = "validated"
BelowCap == Len(Rep.errors) < 100

\* C13: in the parsed dataset every mode has an amplitude for every node id
\* of the node Map: 0.0 where the text's mode lists none for the node, the
\* text's value (as a number) where it lists one.
C13_EveryNodeHasAmplitude ==
  Parsed =>
    \A i \in 1..Len(Data.modes) :
      LET m == Data.modes[i][1]
          shape == Data.modes[i][2]
      IN /\ Doc.hasModes /\ m \in DOMAIN Doc.modes
         /\ \A j \in 1..Len(Data.nodes) :
              LET n == Data.nodes[j][1]
              IN /\ MapHas(shape, n)
                 /\ MapGet(shape, n) = IF n \in DOMAIN Doc.modes[m]
                                       THEN Number(Doc.modes[m][n])
                                       ELSE Fin(0)
C13_UnlistedNodeFilled ==
  /\ pipe.stage = "parsed"
  /\ MapKeys(Data.nodes) = <<1, 2, 3>> /\ MapHas(Data.modes, 1)
  /\ 1 \notin DOMAIN Doc.modes[1] /\ 2 \in DOMAIN Doc.modes[1]
  /\ MapGet(MapGet(Data.modes, 1), 1) = Fin(0)
  /\ MapGet(MapGet(Data.modes, 1), 2) = Fin(4)

Mismatches(m, dir) ==
  Cardinality({i \in 1..Len(Rep.errors) :
                 /\ Rep.errors[i].code = "E_MODE_FREQ_MISMATCH"
                 /\ Rep.errors[i].a = m /\ Rep.errors[i].b = dir})

\* C14: below the cap the report has exactly one E_MODE_FREQ_MISMATCH for
\* each mode number of modes that freqHz lacks, exactly one for each mode
\* number of freqHz that modes lacks, and none for a number in both.
C14_ParityBothDirections ==
  (Validated /\ BelowCap) =>
    LET inModes == Range(MapKeys(Data.modes))
        inFreq == Range(MapKeys(Data.freqHz))
    IN /\ \A m \in inModes \cup inFreq :
            /\ Mismatches(m, 1) = IF m \in inModes \ inFreq THEN 1 ELSE 0
            /\ Mismatches(m, 2) = IF m \in inFreq \ inModes THEN 1 ELSE 0
       /\ CountCode(Rep.errors, "E_MODE_FREQ_MISMATCH")
            = Cardinality(inModes \ inFreq) + Cardinality(inFreq \ inModes)
C14_OneFrequencyOtherMode ==
  /\ Validated
  /\ MapKeys(Data.freqHz) = <<1>> /\ MapKeys(Data.modes) = <<2>>
  /\ CountCode(Rep.errors, "E_MODE_FREQ_MISMATCH") = 2
  /\ Mismatches(2, 1) = 1 /\ Mismatches(1, 2) = 1

\* The data-model constraints on a dataset.
ValidDataset(data) ==
  /\ Len(data.nodes) > 0 /\ Len(data.lines) > 0
  /\ \A i \in 1..Len(data.nodeIdCounts) : data.nodeIdCounts[i][2] = 1
  /\ \A i, j \in 1..Len(data.lines) : i # j => data.lines[i].id # data.lines[j].id
  /\ \A i \in 1..Len(data.lines) :
       /\ MapHas(data.nodes, data.lines[i].nodeI)
       /\ MapHas(data.nodes, data.lines[i].nodeJ)
       /\ data.lines[i].nodeI # data.lines[i].nodeJ
  /\ \A i \in 1..Len(data.freqHz) :
       data.freqHz[i][2].k = "fin" /\ data.freqHz[i][2].v > 0
  /\ Range(MapKeys(data.freqHz)) = Range(MapKeys(data.modes))
  /\ \A i \in 1..Len(data.modes) : \A j \in 1..Len(data.modes[i][2]) :
       /\ data.modes[i][2][j][2].k = "fin"
       /\ MapHas(data.nodes, data.modes[i][2][j][1])

\* C15: a dataset that meets every data-model constraint gets errors = [].
C15_ValidHasNoErrors ==
  (Validated /\ ValidDataset(Data)) => Rep.errors = <<>>
C15_ValidWithWarnings ==
  /\ Validated /\ ValidDataset(Data) /\ Rep.errors = <<>>
  /\ Len(Data.modes) = 2 /\ Len(Data.lines) = 1
  /\ CountCode(Rep.warnings, "W_FREQ_HIGH") = 1
  /\ CountCode(Rep.warnings, "W_NODE_Z_MIXED") = 1

\* C16: errors never has more than 100 entries, and when it has 100 the
\* hundredth error is the last entry pushed on either list: the function
\* returned right after it.
C16_ErrorCap ==
  Validated =>
    /\ Len(Rep.errors) <= 100
    /\ Len(pipe.log) = Len(Rep.errors) + Len(Rep.warnings)
    /\ Cardinality({i \in 1..Len(pipe.log) : pipe.log[i] = "error"})
         = Len(Rep.errors)
    /\ Len(Rep.errors) = 100 => pipe.log[Len(pipe.log)] = "error"
C16_CapBeforeWarning ==
  /\ Validated /\ Len(Rep.errors) = 100
  /\ Rep.errors[100].code = "E_FREQ_NON_POSITIVE" /\ Rep.errors[100].a = 1
  /\ Doc.freqHz[2] = Num(35) /\ Rep.warnings = <<>>
C16_CapAfterWarning ==
  /\ Validated /\ Len(Rep.errors) = 100
  /\ Codes(Rep.warnings) = <<"W_FREQ_HIGH">>
  /\ pipe.log[Len(pipe.log) - 1] = "warning"

MissingKeys(doc) ==
  {k \in {"nodes", "lines", "freqHz", "modes"} :
     \/ k = "nodes" /\ ~doc.hasNodes
     \/ k = "lines" /\ ~doc.hasLines
     \/ k = "freqHz" /\ ~doc.hasFreqHz
     \/ k = "modes" /\ ~doc.hasModes}

\* C17: for a text that lacks some of nodes, lines, freq_hz and modes, the
\* report of parse-then-validate has one E_MISSING_KEY for each key it lacks
\* and nothing else.
C17_MissingKeysReported ==
  (Validated /\ MissingKeys(Doc) # {}) =>
    /\ Len(Rep.errors) = Cardinality(MissingKeys(Doc))
    /\ \A i \in 1..Len(Rep.errors) : Rep.errors[i].code = "E_MISSING_KEY"
    /\ Rep.warnings = <<>>
\* What the pipeline reports instead: never an E_MISSING_KEY.
C17_NeverMissingKey ==
  Validated => CountCode(Rep.errors, "E_MISSING_KEY") = 0

Emptiness == {"E_NODES_EMPTY", "E_LINES_EMPTY"}
IsEmpty == Len(Data.nodes) = 0 \/ Len(Data.lines) = 0

\* C18 as claimed: with nodes empty or lines empty the report has the
\* emptiness error and nothing from any later check.
C18_EmptinessGates ==
  (Validated /\ IsEmpty) =>
    /\ Len(Data.nodes) = 0 => CountCode(Rep.errors, "E_NODES_EMPTY") = 1
    /\ Len(Data.lines) = 0 => CountCode(Rep.errors, "E_LINES_EMPTY") = 1
    /\ \A i \in 1..Len(Rep.errors) : Rep.errors[i].code \in Emptiness
    /\ Rep.warnings = <<>>

BadFrequencies ==
  {i \in 1..Len(Data.freqHz) :
     Data.freqHz[i][2].k # "fin" \/ Data.freqHz[i][2].v <= 0}
HighFrequencies ==
  {i \in 1..Len(Data.freqHz) :
     Data.freqHz[i][2].k = "fin" /\ Data.freqHz[i][2].v > 30}
Amplitudes ==
  {p \in (1..Len(Data.modes)) \X (1..Len(Data.nodes) + 4) :
     p[2] <= Len(Data.modes[p[1]][2])}
FreqErrors == {"E_FREQ_NAN", "E_FREQ_INFINITY", "E_FREQ_NON_POSITIVE"}
CountCodes(list, codes) ==
  Cardinality({i \in 1..Len(list) : list[i].code \in codes})

\* C18 amended: below the cap the report has E_NODES_EMPTY once exactly when
\* nodes is empty and E_LINES_EMPTY once exactly when lines is empty, and the
\* later checks run all the same: with nodes empty every end of every line
\* and every amplitude of the text is reported as referring to an undefined
\* node, and with either empty the frequency, parity and planarity findings
\* are those of every dataset.
C18_EmptinessReportedChecksGoOn ==
  (Validated /\ BelowCap) =>
    /\ CountCode(Rep.errors, "E_NODES_EMPTY") = IF Len(Data.nodes) = 0 THEN 1 ELSE 0
    /\ CountCode(Rep.errors, "E_LINES_EMPTY") = IF Len(Data.lines) = 0 THEN 1 ELSE 0
    /\ Len(Data.nodes) = 0 =>
         /\ CountCode(Rep.errors, "E_LINE_NODE_UNDEF") = 2 * Len(Data.lines)
         /\ CountCode(Rep.errors, "E_MODE_NODE_UNDEF") = Cardinality(Amplitudes)
    /\ IsEmpty =>
         /\ CountCodes(Rep.errors, FreqErrors) = Cardinality(BadFrequencies)
         /\ CountCode(Rep.warnings, "W_FREQ_HIGH") = Cardinality(HighFrequencies)
         /\ CountCode(Rep.errors, "E_MODE_FREQ_MISMATCH")
              = Cardinality(Range(MapKeys(Data.modes)) \ Range(MapKeys(Data.freqHz)))
                + Cardinality(Range(MapKeys(Data.freqHz)) \ Range(MapKeys(Data.modes)))
         /\ CountCode(Rep.warnings, "W_NODE_Z_MIXED")
              = IF \E i, j \in 1..Len(Data.nodes) :
                     Data.nodes[i][2].z - Data.nodes[j][2].z > 1
                THEN 1 ELSE 0
C18_EmptyNodesLinesChecked ==
  /\ Validated /\ Len(Data.nodes) = 0 /\ Len(Data.lines) = 2
  /\ Rep.errors[1].code = "E_NODES_EMPTY"
  /\ CountCode(Rep.errors, "E_LINE_NODE_UNDEF") = 4
  /\ CountCode(Rep.warnings, "W_FREQ_HIGH") = 1
  /\ CountCode(Rep.errors, "E_MODE_NODE_UNDEF") = 2

\* C19: below the cap each frequency entry has at most one fatal error:
\* E_FREQ_NAN for NaN, E_FREQ_INFINITY for an infinity, E_FREQ_NON_POSITIVE
\* for a finite value <= 0, none for a finite value > 0; and one W_FREQ_HIGH
\* exactly when the value is finite and > 30, never beside a fatal error.
C19_FrequencyFindings ==
  (Validated /\ BelowCap) =>
    \A i \in 1..Len(Data.freqHz) :
      LET m == Data.freqHz[i][1]
          f == Data.freqHz[i][2]
          fatal == {j \in 1..Len(Rep.errors) :
                      Rep.errors[j].code \in FreqErrors /\ Rep.errors[j].a = m}
          high == {j \in 1..Len(Rep.warnings) :
                     Rep.warnings[j].code = "W_FREQ_HIGH" /\ Rep.warnings[j].a = m}
          expected == IF f.k = "nan" THEN {"E_FREQ_NAN"}
                      ELSE IF f.k = "inf" THEN {"E_FREQ_INFINITY"}
                      ELSE IF f.v <= 0 THEN {"E_FREQ_NON_POSITIVE"}
                      ELSE {}
      IN /\ {Rep.errors[j].code : j \in fatal} = expected
         /\ Cardinality(fatal) = Cardinality(expected)
         /\ Cardinality(high) = IF f.k = "fin" /\ f.v > 30 THEN 1 ELSE 0
         /\ ~(fatal # {} /\ high # {})
C19_NaNAndInfinity ==
  /\ Validated
  /\ Data.freqHz = <<<<1, NaN>>, <<2, Infinity(1)>>>>
  /\ CountCode(Rep.errors, "E_FREQ_NAN") = 1
  /\ CountCode(Rep.errors, "E_FREQ_INFINITY") = 1
  /\ CountCode(Rep.warnings, "W_FREQ_HIGH") = 0

SetMax(S) == CHOOSE m \in S : \A x \in S : x <= m
SetMin(S) == CHOOSE m \in S : \A x \in S : m <= x
Extent(S) == SetMax(S) - SetMin(S)

\* C20: the controller's lFloor is the larger of the x extent and the y
\* extent of the nodes, 1 when that is 0; aRef is lFloor / 10; Umax of every
\* mode is the largest |uz| of the mode, 1 when that is 0; and they are so in
\* every state, whatever operations have run since the construction.
C20_CachedMetrics ==
  HasCtl =>
    LET nodes == viewerData[1].nodes
        modes == viewerData[1].modes
        extentX == Extent({nodes[i][2].x : i \in 1..Len(nodes)})
        extentY == Extent({nodes[i][2].y : i \in 1..Len(nodes)})
        larger == IF extentX >= extentY THEN extentX ELSE extentY
        lFloor == IF larger = 0 THEN 1 ELSE larger
    IN /\ Ctl.lFloor = lFloor
       /\ Ctl.aRef[1] = lFloor /\ Ctl.aRef[2] = 10
       /\ Len(Ctl.umaxMap) = Len(modes)
       /\ \A i \in 1..Len(modes) :
            LET largest == SetMax({Abs(modes[i][2][j][2].v) :
                                     j \in 1..Len(modes[i][2])})
            IN /\ MapHas(Ctl.umaxMap, modes[i][1])
               /\ MapGet(Ctl.umaxMap, modes[i][1])
                    = IF largest = 0 THEN 1 ELSE largest
C20_ColumnMetrics ==
  /\ lastOp.op = "update" /\ lastOp.arg > 0
  /\ Documents[loadedDoc] = DocColumn /\ Ctl.time > 0 /\ Ctl.scale = 5
  /\ Ctl.lFloor = 1 /\ Ctl.aRef = <<1, 10>>
  /\ Ctl.umaxMap = <<<<1, 1>>, <<2, 2>>>>

\* C21: for a nodeId that is no key of the node Map, getDisplacedZ returns 0
\* whatever the mode, the time and the scale, and changes nothing.
C21_UnknownNodeIsZero ==
  HasCtl =>
    /\ \A n \in NodeIdInputs \ NodeIds : getDisplacedZ(Ctl, n) = <<0, 0, 1, 0>>
    /\ (lastOp.op = "getDisplacedZ" /\ lastOp.arg \notin NodeIds)
         => (ret = <<0, 0, 1, 0>> /\ Now = prev)
C21_UnknownNodeWhilePlaying ==
  /\ lastOp.op = "getDisplacedZ" /\ lastOp.arg = 3 /\ ret = <<0, 0, 1, 0>>
  /\ Documents[loadedDoc] = DocColumn /\ Ctl.currentMode = <<2>>
  /\ Ctl.playing /\ Ctl.time > 0 /\ Ctl.scale = 17

Unlisted ==
  /\ HasCtl /\ Ctl.currentMode # <<>>
  /\ \/ ~MapHas(viewerData[1].freqHz, Ctl.currentMode[1])
     \/ ~MapHas(viewerData[1].modes, Ctl.currentMode[1])

\* C28: while the selected mode has no frequency or no mode shape in the
\* dataset, getDisplacedZ(n) is z_n for every node n at every time and
\* getFreqHz() is 0, while play() still sets playing and update() still
\* advances time.
C28_UnlistedModeAtRest ==
  Unlisted =>
    /\ \A n \in NodeIds : getDisplacedZ(Ctl, n) = AtRest(n)
    /\ getFreqHz(Ctl, <<>>) = Fin(0)
    /\ (lastOp.op = "getDisplacedZ" /\ lastOp.arg \in NodeIds)
         => ret = AtRest(lastOp.arg)
    /\ (lastOp.op = "getFreqHz" /\ lastOp.arg = 0) => ret = <<0>>
    /\ lastOp.op = "play" => Ctl.playing
    /\ (lastOp.op = "update" /\ prev.playing)
         => Ctl.time = prev.time + lastOp.arg * prev.speed
C28_UnlistedModePlaying ==
  /\ lastOp.op = "getFreqHz" /\ lastOp.arg = 0 /\ ret = <<0>>
  /\ Documents[loadedDoc] = DocColumn /\ Ctl.currentMode = <<10>>
  /\ Ctl.playing /\ Ctl.time > 0

\* C22: parseFloorData throws only for a text that is not well-formed JSON,
\* and returns a dataset for every well-formed text.
C22_ThrowsOnlyOnMalformedText ==
  pipe.stage # "text" => (pipe.stage = "failed" <=> ~Doc.wellFormed)

SourceNodes == IF Doc.top = "object" /\ Doc.hasNodes THEN Doc.nodes ELSE <<>>
Entries(id) == {i \in 1..Len(SourceNodes) : SourceNodes[i].id = id}
RECURSIVE SumCounts(_, _)
SumCounts(counts, i) ==
  IF i > Len(counts) THEN 0 ELSE counts[i][2] + SumCounts(counts, i + 1)

\* C26: in the dataset parseFloorData returns, nodeIdCounts has for every id
\* of the source array the number of entries with that id and nothing else,
\* nodes has for that id the coordinates of the last such entry, the counts
\* add up to the length of the source array, and the dataset carries
\* nodeIdCounts.
C26_CountsAndLastWrite ==
  Parsed =>
    /\ "nodeIdCounts" \in DOMAIN Data
    /\ Range(MapKeys(Data.nodeIdCounts))
         = {SourceNodes[i].id : i \in 1..Len(SourceNodes)}
    /\ Range(MapKeys(Data.nodes)) = Range(MapKeys(Data.nodeIdCounts))
    /\ \A id \in Range(MapKeys(Data.nodeIdCounts)) :
         LET last == SourceNodes[SetMax(Entries(id))]
         IN /\ MapGet(Data.nodeIdCounts, id) = Cardinality(Entries(id))
            /\ MapGet(Data.nodes, id)
                 = [id |-> id, x |-> Nullish(last.x, 0),
                    y |-> Nullish(last.y, 0), z |-> Nullish(last.z, 0)]
    /\ SumCounts(Data.nodeIdCounts, 1) = Len(SourceNodes)
C26_ThreeEntriesOneId ==
  /\ Parsed /\ Len(SourceNodes) = 3
  /\ Data.nodeIdCounts = <<<<1, 3>>>>
  /\ MapGet(Data.nodes, 1) = [id |-> 1, x |-> 2, y |-> 2, z |-> 2]

AllZeroWarnings(modeNum) ==
  Cardinality({i \in 1..Len(Rep.warnings) :
                 /\ Rep.warnings[i].code = "W_MODE_ALL_ZERO"
                 /\ Rep.warnings[i].a = modeNum})
WithinTolerance(uz) == isFinite(uz) /\ Abs(uz.v) <= EPS

\* C24: below the cap the report has W_MODE_ALL_ZERO for a mode, once,
\* exactly when the mode has an amplitude and each of its amplitudes is a
\* finite number of absolute value <= 1e-9; a mode with a NaN, an infinite or
\* a larger amplitude has none.
C24_AllZeroWarning ==
  (Validated /\ BelowCap) =>
    \A m \in 1..Len(Data.modes) :
      LET uzMap == Data.modes[m][2]
      IN AllZeroWarnings(Data.modes[m][1])
           = IF /\ Len(uzMap) > 0
                /\ \A k \in 1..Len(uzMap) : WithinTolerance(uzMap[k][2])
             THEN 1 ELSE 0

LineErrors(i, code) ==
  Cardinality({k \in 1..Len(Rep.errors) :
                 Rep.errors[k].code = code /\ Rep.errors[k].a = i - 1})
Count(cond) == IF cond THEN 1 ELSE 0

\* C25: below the cap the report has, for every line, one E_LINE_NODE_UNDEF
\* for each endpoint that is no key of nodes, one E_LINE_SELF_LOOP exactly
\* when nodeI = nodeJ and one E_LINE_DUPLICATE exactly when an earlier line
\* has the same id, so a sound line with a new id has no error.
C25_LineFindings ==
  (Validated /\ BelowCap) =>
    \A i \in 1..Len(Data.lines) :
      LET line == Data.lines[i]
      IN /\ LineErrors(i, "E_LINE_NODE_UNDEF")
              = Count(~MapHas(Data.nodes, line.nodeI))
                + Count(~MapHas(Data.nodes, line.nodeJ))
         /\ LineErrors(i, "E_LINE_SELF_LOOP") = Count(line.nodeI = line.nodeJ)
         /\ LineErrors(i, "E_LINE_DUPLICATE")
              = Count(\E j \in 1..(i - 1) : Data.lines[j].id = line.id)
C25_ThreeKindsOfLine ==
  /\ Validated /\ BelowCap /\ Len(Data.lines) = 3 /\ Len(Data.nodes) = 3
  /\ LineErrors(1, "E_LINE_NODE_UNDEF") = 2
  /\ LineErrors(1, "E_LINE_SELF_LOOP") = 1
  /\ CountCodes(Rep.errors, {"E_LINE_NODE_UNDEF", "E_LINE_SELF_LOOP",
                              "E_LINE_DUPLICATE"}) = 6
  /\ LineErrors(3, "E_LINE_DUPLICATE") = 1
  /\ LineErrors(3, "E_LINE_NODE_UNDEF") = 2

\* C23: a click on the Save-PNG button calls viewer.savePNG exactly when the
\* controller is not playing at the click; while it plays the click only
\* alerts.
C23_SaveOnlyWhenStopped ==
  lastOp.op = "download" =>
    /\ ret = <<IF prev.playing THEN 0 ELSE 1>>
    /\ Now = prev
C23_ClickWhilePlaying ==
  /\ lastOp.op = "download" /\ ret = <<0>>
  /\ Ctl.playing /\ Ctl.time > 0

\* C27: after a successful load the controller is a newly constructed one
\* for the loaded dataset, and after any number of setupUI calls every
\* control has exactly one handler attached, that of the latest call, so
\* that every event reaches the newest controller only.
C27_OneHandlerNewestController ==
  /\ \A el \in Controls :
       listeners[el] = IF uiAttached THEN [slot |-> <<0>>, attached |-> <<0>>]
                       ELSE NoListener
  /\ (lastOp.op = "loadData" /\ ret = <<1>>)
       => /\ viewerData = <<parseFloorData(Documents[lastOp.arg])>>
          /\ Ctl = AnimationController(viewerData[1])
C27_ReloadWhilePlaying ==
  /\ lastOp.op = "loadData" /\ ret = <<1>>
  /\ prev.playing /\ prev.time > 0 /\ prev.scale = 17 /\ prev.currentMode = <<2>>
  /\ Ctl.time = 0 /\ ~Ctl.playing
  /\ listeners["btnPlay"].attached = <<0>>

\* C29: a load that fails, at the parse or with a validation error, leaves
\* the controller, the viewer's dataset, the scheduled frames and the
\* listeners as they were.
C29_FailedLoadKeepsState ==
  [][(lastOp'.op = "loadData" /\ ret' = <<0>>)
       => UNCHANGED <<animController, viewerData, rafId, pendingFrames,
                      prevTimestamp, listeners>>]_<<animController, viewerData,
                                                    rafId, pendingFrames,
                                                    prevTimestamp, listeners>>
C29_FailedLoadWhilePlaying ==
  /\ lastOp.op = "loadData" /\ ret = <<0>>
  /\ Len(messages.errors) > 0
  /\ HasCtl /\ Ctl.playing /\ Ctl.time > 0 /\ Now = prev
  /\ pendingFrames # {} /\ rafId \in pendingFrames

\* C30: at most one animationLoop callback is scheduled at any time, and
\* the first frame after a successful load calls update with deltaTime 0 and
\* leaves time at 0.
C30_OneFrameScheduled ==
  /\ Cardinality(pendingFrames) <= 1
  /\ (lastOp.op = "update" /\ framesSinceLoad = 1)
       => (lastOp.arg = 0 /\ Ctl.time = 0)
C30_FirstFrameWhilePlaying ==
  /\ lastOp.op = "update" /\ framesSinceLoad = 1
  /\ Ctl.playing /\ loadedDoc = 6 /\ Cardinality(pendingFrames) = 1

====
